---- MODULE Spec2Model ----
(***************************************************************************)
(* Model of the 5-minute up/down trading session of poly_abri:             *)
(* SimpleArbitrageBot (src/src/strategy_5min.py) with its collaborators.   *)
(*                                                                         *)
(* Units.  Time is whole seconds since the epoch, as the code truncates it *)
(* with int(datetime.now().timestamp()).  Prices are whole cents: the      *)
(* integer p stands for the double nearest to p/100, which is what         *)
(* float("0.pp") yields.  Comparisons of two such doubles agree with the   *)
(* comparison of the integers; arithmetic on them does not, and is         *)
(* modelled where the code does arithmetic (see StopLossTriggered).        *)
(***************************************************************************)
EXTENDS Integers, Sequences, FiniteSets, TLC

(* ------------------------------ bounds --------------------------------- *)

\* Last second the model lets the clock reach.
MaxTime == 335

\* Latency of a slow blocking call, in seconds; a fast one takes none.
Lag == 25

\* Entries the error log may grow to.
MaxErrors == 1

\* Calls of execute_arbitrage within one market window.
MaxOpportunities == 2
\* Consecutive closed-branch iterations counted (more count as this many).
MaxPasses == 2

(* ------------------------- program constants --------------------------- *)

\* 5-minute market: the slug's timestamp is the opening time.
WindowSeconds == 300

\* End of the derived strategy window, relative to the market start.
StrategyEndOffset == 120

\* settings.strategy_start_timestamp: seconds after the market start at
\* which entries begin.
StrategyStartOffset == 5

\* settings.stoploss: adverse move that stops a position out, in cents.
StopLoss == 10

\* settings.yes_buy_threshold / settings.no_buy_threshold, in cents.
YesBuyThreshold == 45

NoBuyThreshold == 45

\* Ceiling of the buy band, in cents.
BuyCeiling == 95

\* settings.order_size, in shares.
OrderSize == 50

\* settings.target_pair_cost, in cents.
TargetPairCost == 99

\* check_arbitrage: a leg at or above this last-trade price is rejected,
\* in cents.
NearResolved == 75

\* check_arbitrage: tolerated divergence between last trade and best ask,
\* per leg and combined, in cents.
LegTolerance == 3

CombinedTolerance == 5

\* check_arbitrage: shares of the best ask left untouched.
SafetyMargin == 5

\* get_current_prices: attempts per poll, and the sleep after a failure.
MaxRetries == 3

RetrySleep == 1

\* monitor: back-off after a rotation that found no new market or failed.
RotationBackoff == 30

\* strategy(): monitor is started with interval_seconds=0.
IntervalSeconds == 0

(* ----------------------------- values ---------------------------------- *)

None == -1

Delays == {0, Lag}

\* Last-trade prices the quote source may report, in cents.
Prices == {35, 40, 45, 95, 96}

\* Best asks the order book may report: None when the book has no asks, 0
\* when the book request failed and _fetch_orderbooks returned {}.
BestAsks == {None, 0, 50}
WideAsk == 60

\* self.order is None.  A key the code has not yet written is None.
\* The quote source is not pinned: it may report any of Prices.
NoProbe == [pu |-> None, pd |-> None]

NoOrder == [direction |-> "NONE", entry_price |-> None, order_size |-> None,
            cost |-> None, stoploss_price |-> None]

ZeroCounters == [opportunities_found |-> 0, trades_executed |-> 0,
                 total_invested |-> 0, total_shares_bought |-> 0,
                 current_market_trades |-> 0, positions |-> 0]

(* ------------------------------ state ---------------------------------- *)

VARIABLES
    now,                        \* wall clock, seconds
    alive,                      \* monitor() is still running
    dry_run,                    \* settings.dry_run
    cfg_slug,                   \* settings.market_slug as a start time, or None
    max_trades_per_market,      \* settings.max_trades_per_market
    min_time_remaining_minutes, \* settings.min_time_remaining_minutes
    probe,                      \* quotes the quote source is pinned to, if any
    market_slug,                \* the slug's timestamp: the market start
    strategy_start_timestamp,
    strategy_end_timestamp,
    market_end_timestamp,
    is_performed,
    is_performed_informed,
    is_finished,
    order,                      \* self.order
    counters,                   \* the session counters of __init__
    ledger,                     \* rows of result.csv
    error_log,                  \* entries of error.txt
    accepted,                   \* history: orders the backend took (or dry-run)
    last,                       \* history: what the last loop iteration did
    returned                    \* a query called on its own: input and result

vars == <<now, alive, dry_run, cfg_slug, max_trades_per_market,
          min_time_remaining_minutes, probe, market_slug, strategy_start_timestamp,
          strategy_end_timestamp, market_end_timestamp, is_performed,
          is_performed_informed, is_finished, order, counters, ledger,
          error_log, accepted, last, returned>>

window == <<market_slug, strategy_start_timestamp, strategy_end_timestamp,
            market_end_timestamp>>

config == <<dry_run, cfg_slug, max_trades_per_market,
            min_time_remaining_minutes, probe>>

\* No query is called on its own.
NoReturn == [fn |-> "none", done |-> FALSE]

\* What a step did: its outcome, the last-trade price it read on the held
\* side (a stop-loss poll), the slug discovery returned (a closed market),
\* the calls it made to the execution backend, in order, and how many
\* iterations in a row have now taken the closed branch.
Event(e, cur) ==
    [ev |-> e, cur |-> cur, slug |-> None, calls |-> <<>>, passes |-> 0]

\* One call to the execution backend: what was called, for which legs,
\* at what time.
Call(c, legs, at) == [call |-> c, legs |-> legs, at |-> at]

(* --------------------------- pure functions ---------------------------- *)

\* The boundary before the last one: the slug of the previous window.
AlignedPrevious(t) == (t \div WindowSeconds) * WindowSeconds - WindowSeconds

\* find_current_5min_market: the current time rounded down to 5 minutes.
Aligned(t) == (t \div WindowSeconds) * WindowSeconds

\* The string "CLOSED" of the three remaining-time queries; any other
\* result is the "<minutes>m <seconds>s" they format.
CLOSED == [closed |-> TRUE, minutes |-> 0, seconds |-> 0]

Remaining(r) == [closed |-> FALSE, minutes |-> r \div 60, seconds |-> r % 60]

\* get_time_remaining with < for <=: open through the closing second.
get_time_remaining_strict(t) ==
    LET remaining == market_end_timestamp - t
    IN  IF remaining < 0 THEN CLOSED ELSE Remaining(remaining)

\* get_time_remaining(), read at time t.
get_time_remaining(t) ==
    LET remaining == market_end_timestamp - t
    IN  IF remaining <= 0 THEN CLOSED ELSE Remaining(remaining)

\* get_strategy_remaining_to_start(), read at time t.
get_strategy_remaining_to_start(t) ==
    LET remaining == strategy_start_timestamp - t
    IN  IF remaining >= 0 THEN CLOSED ELSE Remaining(remaining)

\* get_current_prices: f failed attempts come before the first success;
\* f = MaxRetries means every attempt failed.  It sleeps after each failure
\* but the last.
FetchSleeps(f) == IF f < MaxRetries THEN f ELSE MaxRetries - 1

FetchFailed(f) == f >= MaxRetries

\* get_market_result on the last-trade prices (None: no data).
get_market_result(pu, pd) ==
    IF pu = None \/ pd = None THEN "NONE"
    ELSE IF pu >= 99 THEN "UP"
    ELSE IF pd >= 99 THEN "DOWN"
    ELSE IF pu > pd THEN "UP"
    ELSE "DOWN"

InBand(p, threshold) == p >= threshold /\ p <= BuyCeiling

\* Directional with DOWN evaluated before UP.
DirectionalDownFirst(pu, pd) ==
    IF InBand(pd, NoBuyThreshold) THEN "DOWN"
    ELSE IF InBand(pu, YesBuyThreshold) THEN "UP"
    ELSE "NONE"

\* run_once: the side the directional evaluation buys.
Directional(pu, pd) ==
    IF InBand(pu, YesBuyThreshold) \/ InBand(pd, NoBuyThreshold)
    THEN IF InBand(pu, YesBuyThreshold) THEN "UP"
         ELSE IF InBand(pd, NoBuyThreshold) THEN "DOWN"
         ELSE "NONE"
    ELSE "NONE"

\* Entries e (cents) for which the double e/100 - (e-10)/100 is below the
\* double 0.10: the subtraction of the two nearest doubles falls short of
\* the nearest double of the decimal difference.
ShortOfTen == {12, 15, 18, 21, 24, 29, 30, 35, 36, 37, 38, 41, 42, 43, 44, 47,
               48, 49, 50, 57, 58, 59, 60, 61, 62, 63, 64, 65, 66, 69, 70, 71,
               72, 73, 74, 75, 76, 77, 78, 82, 83, 84, 85, 86, 87, 88, 89, 90,
               91, 94, 95, 96, 97, 98, 99, 100}

\* monitor: entry_price - stoploss_price >= settings.stoploss, on doubles.
StopLossTriggered(entry, cur) ==
    \/ entry - cur > StopLoss
    \/ entry - cur = StopLoss /\ entry \notin ShortOfTen

Ceil(a, b) == (a + b - 1) \div b

\* ScanSize without the exact-cent test: the smallest size reaching $1.
ScanSizeNoModulus(price_cents) == Ceil(10000, price_cents)

\* ScanSize over 50 candidates instead of 200.
ScanSizeShort(price_cents) ==
    LET min_s == Ceil(10000, price_cents)
        hits == {s \in min_s .. min_s + 49 : (s * price_cents) % 100 = 0}
    IN  IF hits = {} THEN None
        ELSE CHOOSE s \in hits : \A u \in hits : s <= u

\* run_once: the first s in range(min_s, min_s + 200) with an exact-cent
\* cost, or None.
ScanSize(price_cents) ==
    LET min_s == Ceil(10000, price_cents)
        hits == {s \in min_s .. min_s + 199 : (s * price_cents) % 100 = 0}
    IN  IF hits = {} THEN None
        ELSE CHOOSE s \in hits : \A u \in hits : s <= u

\* math.ceil(10000 / price_cents) raised ZeroDivisionError.
ZeroDivision == -2

\* run_once: the size of the order in hundredths of a share, for a unit
\* price of price_cents and settings.order_size shares: adjusted when the
\* raw cost is below one dollar, else the configured size.
AdjustedSize(price_cents, order_size) ==
    IF price_cents * order_size < 100
    THEN IF price_cents = 0 THEN ZeroDivision
         ELSE IF ScanSize(price_cents) # None THEN ScanSize(price_cents)
         ELSE 100 * Ceil(100, price_cents)
    ELSE 100 * order_size

\* run_once: which way the sizer went: no adjustment (or the division
\* raised), a candidate found by the scan, or the fallback of
\* if not found.
ScanOutcome(price_cents, order_size) ==
    IF price_cents * order_size >= 100 \/ price_cents = 0 THEN "none"
    ELSE IF ScanSize(price_cents) # None THEN "found"
    ELSE "fallback"

\* run_once: the size under the configured order size.
SizedOrder(price_cents) == AdjustedSize(price_cents, OrderSize)

\* Performed without the early return on a failed submission.
PerformedDespiteError(dry, failed) == TRUE

\* run_once: whether the position is marked open after the order step.
Performed(dry, failed) == dry \/ ~failed

\* Branch without the is_performed test: the loop scans on.
BranchNoPerformed(t) ==
    IF get_time_remaining(t) = CLOSED THEN "closed"
    ELSE IF is_finished THEN "finished"
    ELSE IF get_strategy_remaining_to_start(t) = CLOSED THEN "await"
    ELSE "scan"

\* Branch with the market-closed test after the other tests.
BranchClosedLast(t) ==
    IF is_finished THEN "finished"
    ELSE IF is_performed THEN "stoploss"
    ELSE IF get_strategy_remaining_to_start(t) = CLOSED THEN "await"
    ELSE IF get_time_remaining(t) = CLOSED THEN "closed"
    ELSE "scan"

\* Branch without the is_finished test: a stopped position is polled on.
BranchNoFinished(t) ==
    IF get_time_remaining(t) = CLOSED THEN "closed"
    ELSE IF is_performed THEN "stoploss"
    ELSE IF get_strategy_remaining_to_start(t) = CLOSED THEN "await"
    ELSE "scan"

\* Branch without the wait for the entry window: the loop scans at once.
BranchNoAwait(t) ==
    IF get_time_remaining(t) = CLOSED THEN "closed"
    ELSE IF is_finished THEN "finished"
    ELSE IF is_performed THEN "stoploss"
    ELSE "scan"

\* monitor: the branch one loop iteration takes at time t.
Branch(t) ==
    IF get_time_remaining(t) = CLOSED THEN "closed"
    ELSE IF is_finished THEN "finished"
    ELSE IF is_performed THEN "stoploss"
    ELSE IF get_strategy_remaining_to_start(t) = CLOSED THEN "await"
    ELSE "scan"

(* ------------------------------- Init ---------------------------------- *)

\* Times at which the session may be constructed.
InitTimes == {290}

\* __init__: the market window it derives from the slug.
Construct(slug) ==
    [market_slug |-> slug,
     strategy_start_timestamp |-> slug + StrategyStartOffset,
     strategy_end_timestamp |-> slug + StrategyEndOffset,
     market_end_timestamp |-> slug + WindowSeconds]

\* A rotation that rebuilds the window and keeps the counters.
ReinitialisedKeeps == counters

\* __init__ run again on the live session by monitor: the counters it
\* assigns once the new market is resolved.
Reinitialised == ZeroCounters

\* The state __init__ leaves: discovery (or the configured slug) named the
\* market that is open at construction time.
Constructed ==
    /\ now \in InitTimes
    /\ alive = TRUE
    /\ dry_run \in BOOLEAN
    /\ cfg_slug \in {None, 0}
    /\ market_slug = Construct(Aligned(now)).market_slug
    /\ strategy_start_timestamp = Construct(Aligned(now)).strategy_start_timestamp
    /\ strategy_end_timestamp = Construct(Aligned(now)).strategy_end_timestamp
    /\ market_end_timestamp = Construct(Aligned(now)).market_end_timestamp
    /\ counters = ZeroCounters
    /\ is_performed = FALSE
    /\ is_performed_informed = FALSE
    /\ is_finished = FALSE
    /\ order = NoOrder
    /\ ledger = <<>>
    /\ error_log = 0
    /\ accepted = <<>>
    /\ last = Event("init", None)

\* The session under the default settings of config.py: no trade cap, no
\* minimum remaining time.
Init ==
    /\ Constructed
    /\ max_trades_per_market = 0
    /\ min_time_remaining_minutes = 0
    /\ probe = NoProbe
    /\ returned = NoReturn

(* ------------------------ monitor: one iteration ----------------------- *)

\* The record left in place after the summary.
OrderKept(o) == o

\* self.order = None, after show_final_summary.
OrderCleared(o) == NoOrder

\* The summary that writes nothing.
SummaryRowsNone(result) == <<>>

\* show_final_summary: the row written for self.order, if there is one.
SummaryRows(result) ==
    IF order = NoOrder THEN <<>>
    ELSE << [direction |-> order.direction,
             entry_price |-> order.entry_price,
             order_size |-> order.order_size,
             cost |-> order.cost,
             stoploss_price |-> order.stoploss_price,
             result |-> result,
             window |-> market_slug,
             confirmed |-> is_performed] >>

\* get_market_result after a poll with f failed attempts.
MarketResults(f) ==
    IF FetchFailed(f) THEN {get_market_result(None, None)}
    ELSE {get_market_result(pu, pd) : pu \in Prices, pd \in Prices}

\* __init__ on rotation: the slug it settles on, or None when it raises.
\* Discovery at time t succeeds or fails; the configured slug is the
\* fallback.
InitSlug(t, found) ==
    IF found THEN Aligned(t) ELSE cfg_slug

\* The wait left out: the next iteration starts at once.
AfterBackoffNone(t) == t

\* await asyncio.sleep(30); continue, of the same-slug branch and of the
\* except branch: when the next iteration starts.
AfterBackoff(t) == t + RotationBackoff

\* The market-closed branch: summary, reset of the flags, discovery and,
\* for a new slug, re-construction.
MarketClosed ==
    /\ alive
    /\ Branch(now) = "closed"
    /\ \E f \in 0 .. MaxRetries, found1, found2, resolved \in BOOLEAN,
          d1, d2 \in Delays :
       \E result \in MarketResults(f) :
        LET t1 == now + FetchSleeps(f) * RetrySleep + d1
            t2 == t1 + d2
            new_market_slug == Aligned(t1)
            slug == InitSlug(t2, found2)
            ev(e) == [Event(e, None) EXCEPT
                         !.slug = IF found1 THEN new_market_slug ELSE None,
                         !.passes = IF last.passes < MaxPasses
                                    THEN last.passes + 1 ELSE MaxPasses]
        IN  /\ ledger' = ledger \o SummaryRows(result)
            /\ is_performed' = FALSE
            /\ is_performed_informed' = FALSE
            /\ is_finished' = FALSE
            /\ order' = OrderCleared(order)
            /\ IF ~found1
               THEN /\ now' = AfterBackoff(t1)
                    /\ last' = ev("discovery_failed")
                    /\ UNCHANGED <<window, counters>>
               ELSE IF new_market_slug = market_slug
               THEN /\ now' = AfterBackoff(t1)
                    /\ last' = ev("same_slug")
                    /\ UNCHANGED <<window, counters>>
               ELSE IF slug = None \/ ~resolved
               THEN /\ now' = AfterBackoff(t2)
                    /\ last' = ev("rebuild_failed")
                    /\ UNCHANGED <<window, counters>>
               ELSE /\ now' = t2
                    /\ last' = ev("rotated")
                    /\ market_slug' = Construct(slug).market_slug
                    /\ strategy_start_timestamp' =
                           Construct(slug).strategy_start_timestamp
                    /\ strategy_end_timestamp' =
                           Construct(slug).strategy_end_timestamp
                    /\ market_end_timestamp' =
                           Construct(slug).market_end_timestamp
                    /\ counters' = Reinitialised
    /\ now' <= MaxTime
    /\ UNCHANGED <<alive, config, returned, error_log, accepted>>

\* if self.is_finished: continue
FinishedIdle ==
    /\ alive
    /\ Branch(now) = "finished"
    /\ \E d \in Delays : now' = now + d
    /\ now' <= MaxTime
    /\ last' = Event("finished_idle", None)
    /\ UNCHANGED <<alive, config, returned, window, is_performed,
                   is_performed_informed,
                   is_finished, order, counters, ledger, error_log, accepted>>

\* The last-trade price of the held side after a poll with f failed
\* attempts: price_up for an UP position, price_down otherwise.
HeldPrices(f) ==
    IF FetchFailed(f) THEN {None}
    ELSE {IF order.direction = "UP" THEN q[1] ELSE q[2] :
             q \in IF probe = NoProbe THEN Prices \X Prices
                   ELSE {<<probe.pu, probe.pd>>}}

\* if self.is_performed: the stop-loss poll.
StopLossPoll ==
    /\ alive
    /\ Branch(now) = "stoploss"
    /\ \E f \in 0 .. MaxRetries, d \in Delays :
       \E stoploss_price \in HeldPrices(f) :
        LET ev(e) == Event(e, stoploss_price)
        IN  /\ now' = now + FetchSleeps(f) * RetrySleep + d
            /\ IF stoploss_price = None
               THEN /\ last' = ev("stoploss_nodata")
                    /\ UNCHANGED <<order, is_finished>>
               ELSE IF StopLossTriggered(order.entry_price, stoploss_price)
               THEN /\ order' = [order EXCEPT !.stoploss_price = stoploss_price]
                    /\ is_finished' = TRUE
                    /\ last' = ev("stoploss_fired")
               ELSE /\ last' = ev("stoploss_hold")
                    /\ UNCHANGED <<order, is_finished>>
    /\ now' <= MaxTime
    /\ UNCHANGED <<alive, config, returned, window, is_performed,
                   is_performed_informed,
                   counters, ledger, error_log, accepted>>

\* if self.get_strategy_remaining_to_start() == "CLOSED": continue
AwaitWindow ==
    /\ alive
    /\ Branch(now) = "await"
    /\ \E d \in Delays : now' = now + d
    /\ now' <= MaxTime
    /\ is_performed_informed' = TRUE
    /\ last' = Event("await", None)
    /\ UNCHANGED <<alive, config, returned, window, is_performed, is_finished, order,
                   counters, ledger, error_log, accepted>>

\* Prices p in tenths of a cent, halfway between two cents, for which
\* round(p/1000, 2) is the upper cent: the double nearest to p/1000 lies
\* above the halfway point.  For the other halfway prices it lies below.
RoundedUp ==
    {5, 25, 35, 55, 65, 85, 95, 115, 135, 165, 195, 225, 255, 265, 275,
     315, 325, 335, 375, 385, 395, 405, 445, 455, 465, 505, 515, 525, 535,
     545, 555, 635, 645, 655, 665, 675, 685, 755, 765, 775, 785, 795, 805,
     875, 885, 895, 905, 915, 925, 935}

\* OrderDto.__post_init__: round(float(price), 2), from a price in tenths
\* of a cent to whole cents.  None has no float and raises.
OrderDtoPrice(best) ==
    IF best % 10 > 5 \/ (best % 10 = 5 /\ best \in RoundedUp)
    THEN best \div 10 + 1
    ELSE best \div 10

\* execute_market_buy(settings, order): whether a result it returns
\* carries an errorMsg.
MarketBuyFails == BOOLEAN

\* The dry-run test dropped: the order goes out whatever the mode.
SubmitsAlways(dry) == TRUE

\* if not self.settings.dry_run (run_once); the else of
\* if self.settings.dry_run: ... return True (execute_arbitrage).
Submits(dry) == ~dry

\* The <<price_up, price_down>> a successful poll may return.
QuotedPrices ==
    IF probe = NoProbe THEN Prices \X Prices ELSE {<<probe.pu, probe.pd>>}

\* The best asks a successful poll may return with them; a pinned quote
\* source may also have its best ask well above its last trade.
QuotedAsks ==
    IF probe = NoProbe THEN BestAsks ELSE BestAsks \cup {WideAsk}

\* The directional evaluation of the quotes of a poll with f failed
\* attempts (no quotes: no evaluation).
Signals(f) ==
    IF FetchFailed(f) THEN {"NONE"}
    ELSE {Directional(q[1], q[2]) : q \in QuotedPrices}

\* run_once and the sleep that follows it: the scan of one iteration.
\* best is the best ask of the side the evaluation selects; the other
\* side's best ask is not read.
Scan ==
    /\ alive
    /\ Branch(now) = "scan"
    /\ \E f \in 0 .. MaxRetries, d \in Delays :
       \E signal \in Signals(f) :
       \E best \in IF signal = "NONE" THEN {None} ELSE QuotedAsks :
       \E failed \in IF ~Submits(dry_run) \/ best \in {None, 0} THEN {FALSE}
                     ELSE MarketBuyFails :
        LET t == now + FetchSleeps(f) * RetrySleep + d
            price == OrderDtoPrice(10 * best)
            placed == [direction |-> signal, entry_price |-> best,
                       order_size |-> None, cost |-> None,
                       stoploss_price |-> None]
            size == SizedOrder(price)
            ev(e) == Event(e, None)
            sent(e) == [Event(e, None) EXCEPT !.calls =
                           <<Call("execute_market_buy", <<signal>>, t)>>]
            stay == /\ UNCHANGED <<is_performed, error_log, accepted>>
            crash(e, o) == /\ alive' = FALSE
                           /\ order' = o
                           /\ last' = ev(e)
                           /\ now' = t
                           /\ stay
        IN  IF get_time_remaining(now) = CLOSED
               \/ get_strategy_remaining_to_start(now) = CLOSED
            THEN /\ now' = now + IntervalSeconds
                 /\ last' = ev("scan_not_open")
                 /\ UNCHANGED <<alive, order>>
                 /\ stay
            ELSE IF FetchFailed(f)
            THEN crash("scan_nodata", order)
            ELSE IF signal = "NONE"
            THEN /\ now' = t + IntervalSeconds
                 /\ last' = ev("scan_nosignal")
                 /\ UNCHANGED <<alive, order>>
                 /\ stay
            ELSE IF best = None
            THEN crash("scan_noprice", placed)
            ELSE IF price * OrderSize < 100 /\ price = 0
            THEN crash("scan_zeroprice",
                       [placed EXCEPT !.order_size = 100 * OrderSize])
            ELSE /\ order' = [placed EXCEPT !.order_size = size,
                                            !.cost = size * price]
                 /\ now' = t + IntervalSeconds
                 /\ alive' = alive
                 /\ IF ~Submits(dry_run)
                    THEN /\ is_performed' = Performed(TRUE, FALSE)
                         /\ accepted' = Append(accepted,
                                [window |-> market_slug, direction |-> signal])
                         /\ last' = ev("scan_opened")
                         /\ UNCHANGED error_log
                    ELSE IF failed
                    THEN /\ error_log < MaxErrors
                         /\ error_log' = error_log + 1
                         /\ is_performed' = Performed(FALSE, TRUE)
                         /\ last' = sent("scan_order_error")
                         /\ UNCHANGED accepted
                    ELSE /\ is_performed' = Performed(FALSE, FALSE)
                         /\ accepted' = Append(accepted,
                                [window |-> market_slug, direction |-> signal])
                         /\ last' = sent("scan_opened")
                         /\ UNCHANGED error_log
    /\ now' <= MaxTime
    /\ UNCHANGED <<config, returned, window, is_performed_informed, is_finished,
                   counters, ledger>>

Next ==
    \/ MarketClosed
    \/ FinishedIdle
    \/ StopLossPoll
    \/ AwaitWindow
    \/ Scan

Spec == Init /\ [][Next]_vars

(* ------------------------- the arbitrage path -------------------------- *)

\* check_arbitrage: the opportunity it returns for last-trade prices pu and
\* pd (cents); amounts are in cents.
Opportunity(pu, pd) ==
    [price_up |-> pu, price_down |-> pd, total_cost |-> pu + pd,
     profit_per_share |-> 100 - (pu + pd), order_size |-> OrderSize,
     total_investment |-> (pu + pd) * OrderSize,
     expected_payout |-> 100 * OrderSize,
     expected_profit |-> 100 * OrderSize - (pu + pd) * OrderSize]

\* Opportunities execute_arbitrage is called with.
Opportunities == {Opportunity(40, 55)}

\* execute_arbitrage: the counters after a trade, simulated or real.
Tracked(c, opportunity, real) ==
    [c EXCEPT !.trades_executed = IF real THEN @ + 1 ELSE @,
              !.current_market_trades = @ + 1,
              !.total_invested = @ + opportunity.total_investment,
              !.total_shares_bought = @ + opportunity.order_size * 2,
              !.positions = @ + 1]

\* The cap test with > for >=: one trade too many passes.
CapReachedOffByOne(current_market_trades) ==
    /\ max_trades_per_market > 0
    /\ current_market_trades > max_trades_per_market

\* execute_arbitrage: the trade cap of the current market is reached.
CapReached(current_market_trades) ==
    /\ max_trades_per_market > 0
    /\ current_market_trades >= max_trades_per_market

\* The two orders execute_arbitrage prepares: the UP leg, the DOWN leg.
Legs == <<"UP", "DOWN">>

\* What the backend does with the orders of one call: signs and takes
\* them, signs them and fails the submission, or fails to sign the last.
BackendOutcomes == {"ok", "error", "unsigned"}

\* The calls create_order makes for the first n of the orders, in order.
RECURSIVE Signed(_, _, _)
Signed(orders, n, at) ==
    IF n = 0 THEN <<>>
    ELSE Append(Signed(orders, n - 1, at),
                Call("create_order", <<orders[n]>>, at))

\* Each order signed and posted on its own, one after the other.
place_orders_one_by_one(orders, outcome, at) ==
    LET posts == [n \in 1 .. 2 * Len(orders) |->
                     Call(IF n % 2 = 1 THEN "create_order" ELSE "post_orders",
                          <<orders[(n + 1) \div 2]>>, at)]
    IN  [calls |-> IF outcome = "unsigned"
                   THEN SubSeq(posts, 1, 2 * Len(orders) - 1)
                   ELSE posts,
         results |-> IF outcome = "unsigned" THEN "raised" ELSE outcome]

\* place_orders_fast: create_order for every order in turn, then one
\* post_orders with all of them.  A create_order that raises ends the call
\* with nothing posted; a post_orders that raises is returned as an error.
place_orders_fast(orders, outcome, at) ==
    [calls |-> IF outcome = "unsigned"
               THEN Signed(orders, Len(orders), at)
               ELSE Append(Signed(orders, Len(orders), at),
                           Call("post_orders", orders, at)),
     results |-> IF outcome = "unsigned" THEN "raised" ELSE outcome]

\* execute_arbitrage(opportunity), with what the backend does with the
\* orders if they go out.
ExecuteArbitrage ==
    /\ alive
    /\ counters.opportunities_found < MaxOpportunities
    /\ \E opportunity \in Opportunities, outcome \in BackendOutcomes,
          d \in Delays :
        LET found == [counters EXCEPT !.opportunities_found = @ + 1]
            remaining_seconds == market_end_timestamp - now
            placed == place_orders_fast(Legs, outcome, now)
            ev(e, calls) == [Event(e, None) EXCEPT !.calls = calls]
        IN  IF /\ min_time_remaining_minutes > 0
               /\ remaining_seconds < 60 * min_time_remaining_minutes
            THEN /\ counters' = found
                 /\ last' = Event("arb_too_late", None)
                 /\ UNCHANGED <<now, error_log>>
            ELSE IF CapReached(counters.current_market_trades)
            THEN /\ counters' = found
                 /\ last' = Event("arb_capped", None)
                 /\ UNCHANGED <<now, error_log>>
            ELSE IF ~Submits(dry_run)
            THEN /\ counters' = Tracked(found, opportunity, FALSE)
                 /\ last' = Event("arb_simulated", None)
                 /\ UNCHANGED <<now, error_log>>
            ELSE IF placed.results = "raised"
            THEN /\ counters' = found
                 /\ now' = now + d
                 /\ last' = ev("arb_unsigned", placed.calls)
                 /\ UNCHANGED error_log
            ELSE IF placed.results = "error"
            THEN /\ error_log < MaxErrors
                 /\ error_log' = error_log + 1
                 /\ counters' = found
                 /\ now' = now + d
                 /\ last' = ev("arb_failed", placed.calls)
            ELSE /\ counters' = Tracked(found, opportunity, TRUE)
                 /\ now' = now + 1 + d
                 /\ last' = ev("arb_executed",
                               placed.calls \o
                                   <<Call("get_positions", Legs, now'),
                                     Call("get_balance", <<>>, now'),
                                     Call("get_positions", Legs, now')>>)
                 /\ UNCHANGED error_log
    /\ now' <= MaxTime
    /\ UNCHANGED <<alive, config, returned, window, is_performed,
                   is_performed_informed,
                   is_finished, order, ledger, accepted>>

\* Time passes between two calls while the market is open.
Elapse ==
    /\ alive
    /\ Branch(now) # "closed"
    /\ \E d \in Delays \ {0} : now' = now + d
    /\ now' <= MaxTime
    /\ last' = Event("elapse", None)
    /\ UNCHANGED <<alive, config, returned, window, is_performed,
                   is_performed_informed,
                   is_finished, order, counters, ledger, error_log, accepted>>

\* The session with a trade cap and a minimum remaining time configured
\* or not.
InitArbitrage ==
    /\ Constructed
    /\ max_trades_per_market \in {0, 1}
    /\ min_time_remaining_minutes \in {0, 1}
    /\ probe = NoProbe
    /\ returned = NoReturn

\* execute_arbitrage driven call by call, the market rotating when closed.
NextArbitrage ==
    \/ ExecuteArbitrage
    \/ Elapse
    \/ MarketClosed

SpecArbitrage == InitArbitrage /\ [][NextArbitrage]_vars

(* --------------------------- check_arbitrage --------------------------- *)

Abs(x) == IF x < 0 THEN -x ELSE x

Min(a, b) == IF a < b THEN a ELSE b

\* Prices l (cents) for which the double |l/100 - (l+3)/100| exceeds the
\* double 0.03.  A difference of any other whole number of cents compares
\* with 0.03 as the integers do.
ThreeOver == {2, 4, 11, 24, 25, 29, 30, 31, 35, 36, 37, 41, 42, 43, 47, 48,
              49, 50, 51, 52, 53, 57, 58, 59, 60, 61, 62, 63, 64, 65, 69, 70,
              71, 72, 73, 74, 75, 76, 77, 78, 82, 83, 84, 85, 86, 87, 88, 89,
              90, 94, 95, 96, 97}

\* Quotes <<price_up, best_up, price_down, best_down>> of Snapshots whose
\* divergences add up to 5 cents and whose double sum exceeds the double
\* 0.05.  For the other quotes of Snapshots the sum compares with 0.05 as
\* the integers do, and so does price_up + price_down with 0.99.
CombinedOver ==
    {<<0, 2, 59, 62>>, <<0, 3, 59, 61>>, <<74, 76, 0, 3>>, <<74, 77, 0, 2>>,
     <<74, 76, 20, 23>>, <<74, 77, 20, 22>>, <<74, 76, 59, 62>>,
     <<74, 77, 59, 61>>, <<75, 77, 0, 3>>, <<75, 78, 0, 2>>,
     <<75, 77, 20, 23>>, <<75, 78, 20, 22>>, <<75, 77, 59, 62>>,
     <<75, 78, 59, 61>>}

\* abs(price - best) > 0.03, on doubles.
LegOver(price, best) ==
    \/ Abs(price - best) > LegTolerance
    \/ Abs(price - best) = LegTolerance /\ Min(price, best) \in ThreeOver

\* The combined test with >= for >: a sum of exactly 0.05 is refused.
CombinedAtTolerance(q) ==
    Abs(q.price_up - q.best_up) + Abs(q.price_down - q.best_down)
        >= CombinedTolerance

\* up_diff + down_diff > 0.05, on doubles.
CombinedOverTolerance(q) ==
    LET sum == Abs(q.price_up - q.best_up) + Abs(q.price_down - q.best_down)
    IN  \/ sum > CombinedTolerance
        \/ /\ sum = CombinedTolerance
           /\ <<q.price_up, q.best_up, q.price_down, q.best_down>>
                  \in CombinedOver

\* The liquidity test with <= for <: an exactly sufficient book is refused.
IlliquidAtEqual(size_up, size_down) ==
    \/ size_up - SafetyMargin <= OrderSize
    \/ size_down - SafetyMargin <= OrderSize

\* check_arbitrage: a side's ask size less the safety margin is below the
\* order size.
Illiquid(size_up, size_down) ==
    \/ size_up - SafetyMargin < OrderSize
    \/ size_down - SafetyMargin < OrderSize

\* What a call returns: None, an opportunity, or an exception.
Null == [kind |-> "null", error |-> "", opportunity |-> Opportunity(0, 0)]

Raised(e) == [kind |-> "raised", error |-> e, opportunity |-> Opportunity(0, 0)]

Found(o) == [kind |-> "opportunity", error |-> "", opportunity |-> o]

\* check_arbitrage on the snapshot q that get_current_prices returned.
check_arbitrage(q) ==
    IF \/ q.price_up = None
       \/ q.price_down = None
       \/ q.price_up >= NearResolved
       \/ q.price_down >= NearResolved
    THEN Null
    ELSE IF q.best_up = None \/ q.best_down = None
    THEN Raised("TypeError")
    ELSE IF \/ /\ LegOver(q.price_up, q.best_up)
               /\ LegOver(q.price_down, q.best_down)
            \/ CombinedOverTolerance(q)
    THEN Null
    ELSE IF q.price_up + q.price_down < TargetPairCost
    THEN IF Illiquid(q.size_up, q.size_down) THEN Null
         ELSE IF q.price_up + q.price_down = 0
         THEN Raised("ZeroDivisionError")
         ELSE Found(Opportunity(q.price_up, q.price_down))
    ELSE Null

\* Last-trade prices of the two legs, in cents.
ArbUpPrices == {0, 40, 74, 75}

ArbDownPrices == {0, 20, 55, 59}

\* Cents by which a best ask lies above the last trade.
ArbOffsets == {0, 2, 3, 4}

\* Shares offered at the best ask.
ArbSizes == {54, 55, 100}

\* _fetch_orderbooks: what a leg's book yields for a last-trade price: no
\* asks (best ask None, size 0), no book at all (both default to 0), or a
\* best ask with its size.
BookSides(price) ==
    {[best |-> None, size |-> 0], [best |-> 0, size |-> 0]}
    \cup {[best |-> price + off, size |-> z] : off \in ArbOffsets, z \in ArbSizes}

\* get_current_prices: the snapshots a poll with f failed attempts returns.
Snapshots(f) ==
    IF FetchFailed(f)
    THEN {[price_up |-> None, price_down |-> None, size_up |-> None,
           size_down |-> None, best_up |-> None, best_down |-> None]}
    ELSE UNION {{[price_up |-> pu, price_down |-> pd, size_up |-> bu.size,
                  size_down |-> bd.size, best_up |-> bu.best,
                  best_down |-> bd.best] :
                     bu \in BookSides(pu), bd \in BookSides(pd)} :
                pu \in ArbUpPrices, pd \in ArbDownPrices}

\* One call of check_arbitrage with the poll it makes: the quote source
\* holds the snapshot the session was set up with, and the poll returns
\* it unless every attempt fails.
CheckArbitrage ==
    /\ alive
    /\ returned.fn = "check_arbitrage"
    /\ ~returned.done
    /\ \E f \in 0 .. MaxRetries :
        LET q == IF FetchFailed(f) THEN CHOOSE x \in Snapshots(f) : TRUE
                 ELSE returned.quote
        IN  /\ now' = now + FetchSleeps(f) * RetrySleep
            /\ returned' = [fn |-> "check_arbitrage", done |-> TRUE,
                            quote |-> q, result |-> check_arbitrage(q)]
    /\ now' <= MaxTime
    /\ last' = Event("check_arbitrage", None)
    /\ UNCHANGED <<alive, config, window, is_performed, is_performed_informed,
                   is_finished, order, counters, ledger, error_log, accepted>>

\* A dry-run session about to evaluate one snapshot.
InitEvaluator ==
    /\ Constructed
    /\ dry_run
    /\ cfg_slug = None
    /\ max_trades_per_market = 0
    /\ min_time_remaining_minutes = 0
    /\ probe = NoProbe
    /\ returned \in [fn : {"check_arbitrage"}, done : {FALSE},
                      quote : Snapshots(0), result : {Null}]

NextEvaluator == CheckArbitrage

SpecEvaluator == InitEvaluator /\ [][NextEvaluator]_vars

(* ----------------------------- the sizer ------------------------------- *)

\* Unit prices in (0, 1) the order book may quote, in tenths of a cent.
SizerPrices == 1 .. 999

\* Values of settings.order_size, in shares.
SizerOrderSizes == {1, 50}

\* The order step of run_once up to the submission, for the best ask and
\* the configured order size the session was set up with: OrderDto rounds
\* the price, the sizer sets the size.
SizeOrder ==
    /\ alive
    /\ returned.fn = "sizer"
    /\ ~returned.done
    /\ returned' = [returned EXCEPT
                       !.done = TRUE,
                       !.price = OrderDtoPrice(returned.best),
                       !.size = AdjustedSize(OrderDtoPrice(returned.best),
                                             returned.order_size),
                       !.scan = ScanOutcome(OrderDtoPrice(returned.best),
                                            returned.order_size)]
    /\ last' = Event("sizer", None)
    /\ UNCHANGED <<now, alive, config, window, is_performed,
                   is_performed_informed, is_finished, order, counters,
                   ledger, error_log, accepted>>

\* A session about to size an order for one best ask and order size.
InitSizer ==
    /\ Constructed
    /\ max_trades_per_market = 0
    /\ min_time_remaining_minutes = 0
    /\ probe = NoProbe
    /\ returned \in [fn : {"sizer"}, done : {FALSE}, best : SizerPrices,
                      order_size : SizerOrderSizes, price : {None},
                      size : {None}, scan : {"none"}]

NextSizer == SizeOrder

SpecSizer == InitSizer /\ [][NextSizer]_vars

(* ----------------------- the remaining-time queries ------------------- *)

\* Seconds between two calls of the queries.
ClockSteps == 1 .. 3

\* The duration a remaining-time query reports, in seconds.
Seconds(r) == 60 * r.minutes + r.seconds

\* get_time_remaining() and get_strategy_remaining_to_start() called once
\* each after some time has passed; each reads the clock itself.
TimeQueries ==
    /\ alive
    /\ \E d \in ClockSteps : now' = now + d
    /\ now' <= MaxTime
    /\ returned' = [fn |-> "clock", done |-> TRUE,
                    time_remaining |-> get_time_remaining(now'),
                    to_start |-> get_strategy_remaining_to_start(now')]
    /\ last' = Event("clock", None)
    /\ UNCHANGED <<alive, config, window, is_performed, is_performed_informed,
                   is_finished, order, counters, ledger, error_log, accepted>>

\* The queries called as time passes, the market rotating when closed.
NextClock ==
    \/ TimeQueries
    \/ MarketClosed

SpecClock == Init /\ [][NextClock]_vars

(* -------------- the loop with a minimum remaining time ----------------- *)

\* The session with settings.min_time_remaining_minutes above zero.
InitGuarded ==
    /\ Constructed
    /\ max_trades_per_market = 0
    /\ min_time_remaining_minutes = 1
    /\ probe = NoProbe
    /\ returned = NoReturn

NextGuarded == Next

SpecGuarded == InitGuarded /\ [][NextGuarded]_vars

(* ---------------- rotation when discovery comes back -------------------- *)

\* A closed-branch iteration in which discovery and resolution both
\* succeed on a window other than the tracked one.
Rotate ==
    /\ MarketClosed
    /\ last'.ev = "rotated"
    /\ market_slug' # market_slug

\* The session in dry-run mode, with or without a configured slug to
\* fall back on.
InitRotation ==
    /\ Constructed
    /\ dry_run
    /\ max_trades_per_market = 0
    /\ min_time_remaining_minutes = 0
    /\ probe = NoProbe
    /\ returned = NoReturn

NextRotation == Next

\* The monitor loop keeps iterating, and discovery and resolution do not
\* fail for ever.
SpecRotation == InitRotation /\ [][NextRotation]_vars /\ WF_vars(Rotate)

(* ------------- the stop-loss on quotes that do not change --------------- *)

\* Pairs of last-trade prices with an entry signal on one side.
HeldQuotes == [pu : {40, 45}, pd : {40, 95}] \ {[pu |-> 40, pd |-> 40]}

\* A session whose quote source keeps reporting the same last-trade
\* prices, from the entry on.
InitStopLoss ==
    /\ Constructed
    /\ max_trades_per_market = 0
    /\ min_time_remaining_minutes = 0
    /\ probe \in HeldQuotes
    /\ returned = NoReturn

NextStopLoss == Next

SpecStopLoss == InitStopLoss /\ [][NextStopLoss]_vars

(* ------------------- get_current_prices on its own --------------------- *)

\* What the quote source does with each attempt of one poll: TRUE, it
\* answers; FALSE, the request raises.
Answers == [1 .. MaxRetries -> BOOLEAN]

\* The result of a poll that gave up.
AllNone == CHOOSE x \in Snapshots(MaxRetries) : TRUE

\* The loop with the sleep after every failure, the last included.
RECURSIVE AttemptsSleepingLast(_, _, _)
AttemptsSleepingLast(answers, quote, attempt) ==
    IF answers[attempt]
    THEN [steps |-> <<"fetch">>, result |-> quote]
    ELSE IF attempt < MaxRetries
    THEN LET rest == AttemptsSleepingLast(answers, quote, attempt + 1)
         IN  [rest EXCEPT !.steps = <<"fetch", "sleep">> \o @]
    ELSE [steps |-> <<"fetch", "sleep">>, result |-> AllNone]

\* for attempt in range(1, max_retries + 1): the steps the loop takes from
\* this attempt on, and what it returns.
RECURSIVE Attempts(_, _, _)
Attempts(answers, quote, attempt) ==
    IF answers[attempt]
    THEN [steps |-> <<"fetch">>, result |-> quote]
    ELSE IF attempt < MaxRetries
    THEN LET rest == Attempts(answers, quote, attempt + 1)
         IN  [rest EXCEPT !.steps = <<"fetch", "sleep">> \o @]
    ELSE [steps |-> <<"fetch">>, result |-> AllNone]

\* How many of the steps are the given one.
Count(steps, what) == Cardinality({i \in DOMAIN steps : steps[i] = what})

\* Quotes the source holds in these polls.
PollQuotes ==
    {q \in Snapshots(0) : /\ q.size_up = 100 /\ q.size_down = 100
                          /\ q.best_up = q.price_up
                          /\ q.best_down = q.price_down}

\* One call of get_current_prices: the steps it took, what it returned,
\* and the time it took.
PollPrices ==
    /\ alive
    /\ returned.fn = "get_current_prices"
    /\ ~returned.done
    /\ LET poll == Attempts(returned.answers, returned.quote, 1)
       IN  /\ returned' = [returned EXCEPT !.done = TRUE,
                                           !.steps = poll.steps,
                                           !.result = poll.result]
           /\ now' = now + Count(poll.steps, "sleep") * RetrySleep
    /\ now' <= MaxTime
    /\ last' = Event("get_current_prices", None)
    /\ UNCHANGED <<alive, config, window, is_performed, is_performed_informed,
                   is_finished, order, counters, ledger, error_log, accepted>>

\* A session about to poll a quote source that holds one quote and
\* answers or fails each attempt.
InitPoll ==
    /\ Constructed
    /\ dry_run
    /\ cfg_slug = None
    /\ max_trades_per_market = 0
    /\ min_time_remaining_minutes = 0
    /\ probe = NoProbe
    /\ returned \in [fn : {"get_current_prices"}, done : {FALSE},
                      answers : Answers, quote : PollQuotes,
                      steps : {<<>>}, result : {AllNone}]

NextPoll == PollPrices

SpecPoll == InitPoll /\ [][NextPoll]_vars

(* ------------------ both entry paths in one session -------------------- *)

\* The monitor loop with execute_arbitrage called between its iterations,
\* in dry-run mode.
InitBothPaths ==
    /\ Constructed
    /\ dry_run
    /\ cfg_slug = None
    /\ max_trades_per_market = 0
    /\ min_time_remaining_minutes = 0
    /\ probe = NoProbe
    /\ returned = NoReturn

NextBothPaths ==
    \/ Next
    \/ ExecuteArbitrage

SpecBothPaths == InitBothPaths /\ [][NextBothPaths]_vars

(* ------------------- run_once on every pair of quotes ------------------ *)

\* Last-trade prices around the two ends of the buy band, in cents.
ProbePrices == {0, 44, 45, 46, 94, 95, 96, 100}

\* A session in its entry window whose quote source reports one pair of
\* last-trade prices.
InitDirectional ==
    /\ Constructed
    /\ max_trades_per_market = 0
    /\ min_time_remaining_minutes = 0
    /\ probe \in [pu : ProbePrices, pd : ProbePrices]
    /\ returned = NoReturn

NextDirectional == Scan

SpecDirectional == InitDirectional /\ [][NextDirectional]_vars

(* ------------------------------ typing --------------------------------- *)

TypeOK ==
    /\ now \in 0 .. MaxTime
    /\ alive \in BOOLEAN
    /\ is_performed \in BOOLEAN
    /\ is_finished \in BOOLEAN
    /\ market_end_timestamp = market_slug + WindowSeconds
    /\ error_log \in 0 .. MaxErrors

(* ------------------------------ claims --------------------------------- *)

\* Outcomes of the market-closed branch.
ClosedEvents == {"discovery_failed", "same_slug", "rebuild_failed", "rotated"}

\* Outcomes of a scan that handed an order to the execution step.
OrderEvents == {"scan_opened", "scan_order_error"}

\* Outcomes of a poll whose quote fetch failed after its retries.
NoDataEvents == {"stoploss_nodata", "scan_nodata"}

\* Outcomes of a stop-loss poll that read a price.
StopLossEvents == {"stoploss_hold", "stoploss_fired"}

\* Outcomes of a scan that evaluated a pair of quotes.
EvaluatedEvents == {"scan_nosignal", "scan_noprice", "scan_zeroprice",
                    "scan_order_error", "scan_opened"}

FlagsCleared ==
    /\ order = NoOrder
    /\ ~is_performed
    /\ ~is_performed_informed
    /\ ~is_finished

\* C1: at most one directional position is opened per market window: from
\* a state with a position open no step hands an order to the execution
\* step, and no two accepted orders belong to the same window.
C1_OnePositionPerWindow ==
    [][ /\ is_performed => last'.ev \notin OrderEvents
        /\ \A i, j \in DOMAIN accepted' :
              accepted'[i].window = accepted'[j].window => i = j ]_vars

\* C1 witness: a position was opened in each of two windows and the second
\* one has been polled for its stop-loss.
C1_Witness ==
    /\ Len(accepted) = 2
    /\ is_performed
    /\ last.ev = "stoploss_hold"

\* C2: once now >= the close time, the next iteration is the market-closed
\* branch: it writes the summary row of the open record, if any, and there
\* is no scan, no stop-loss evaluation and no order.
C2_ClosedBranchFirst ==
    [][ (alive /\ now >= market_end_timestamp) =>
          /\ last'.ev \in ClosedEvents
          /\ Len(ledger') = Len(ledger) + (IF order = NoOrder THEN 0 ELSE 1)
          /\ order' = NoOrder
          /\ accepted' = accepted
          /\ error_log' = error_log ]_vars

\* C2 witness: the market closed on a stopped position, whose row is the
\* last of the ledger.
C2_Witness ==
    /\ last.ev \in ClosedEvents
    /\ ledger # <<>>
    /\ ledger[Len(ledger)].stoploss_price # None

C5_NoDataIsTransient == last.ev \in NoDataEvents => alive

\* C6: a directional submission that reports an error adds an entry to the
\* error log, leaves the position unmarked and the session running, and
\* the next iteration scans again (or finds the market closed).
C6_OrderErrorKeepsScanning ==
    [][ last'.ev = "scan_order_error" =>
          /\ error_log' = error_log + 1
          /\ ~is_performed'
          /\ alive'
          /\ accepted' = accepted
          /\ (Branch(now))' \in {"scan", "closed"} ]_vars

\* C6 witness: a submission has just reported an error.
C6_Witness ==
    /\ last.ev = "scan_order_error"
    /\ error_log = 1
    /\ ~dry_run

\* C7 as stated: a running session holds a position record only once the
\* order is confirmed or simulated, holds none after a submission error,
\* and every ledger row is that of a confirmed or simulated position.
C7_RecordOnlyWhenConfirmed ==
    /\ (alive /\ order # NoOrder) => is_performed
    /\ last.ev = "scan_order_error" => order = NoOrder
    /\ \A i \in DOMAIN ledger : ledger[i].confirmed

\* C8 as stated: a stop-loss poll that reads the held side's price stops
\* the position exactly when entry_price minus that price is at least the
\* margin, and then records that price as the stop-loss price.
C8_StopLossAtMargin ==
    [][ last'.ev \in StopLossEvents =>
          /\ is_finished' <=> (order.entry_price - last'.cur >= StopLoss)
          /\ is_finished' => order'.stoploss_price = last'.cur
          /\ ~is_finished' => order' = order ]_vars

\* C9: from a stopped position every step before the close idles: no
\* quotes polled, no order, the recorded stop-loss price unchanged; the
\* only other step is the market-closed branch once the window has closed.
C9_StoppedIsIdle ==
    [][ is_finished =>
          \/ /\ last'.ev = "finished_idle"
             /\ order' = order
             /\ is_finished'
             /\ accepted' = accepted
             /\ error_log' = error_log
          \/ /\ now >= market_end_timestamp
             /\ last'.ev \in ClosedEvents ]_vars

\* C9 witness: a stopped position has idled through an iteration.
C9_Witness ==
    /\ is_finished
    /\ last.ev = "finished_idle"
    /\ order.stoploss_price # None

\* C10: a scan that evaluates the quotes (pu, pd) buys UP when pu is in
\* [yes_buy_threshold, 0.95], else DOWN when pd is in [no_buy_threshold,
\* 0.95], else reports no signal and hands over no order.
C10_DirectionalPriority ==
    [][ last'.ev \in EvaluatedEvents =>
          LET up == probe.pu >= YesBuyThreshold /\ probe.pu <= BuyCeiling
              down == probe.pd >= NoBuyThreshold /\ probe.pd <= BuyCeiling
          IN  /\ up => order'.direction = "UP" /\ last'.ev # "scan_nosignal"
              /\ (~up /\ down) =>
                    order'.direction = "DOWN" /\ last'.ev # "scan_nosignal"
              /\ (~up /\ ~down) =>
                    /\ last'.ev = "scan_nosignal"
                    /\ UNCHANGED <<order, accepted, error_log, is_performed>>
      ]_vars

\* C10 witness: both sides were inside their band and UP was bought.
C10_Witness ==
    /\ probe.pu = YesBuyThreshold
    /\ probe.pd = BuyCeiling
    /\ last.ev = "scan_opened"
    /\ order.direction = "UP"
    /\ accepted # <<>>

\* Outcomes of a call of execute_arbitrage.
ArbitrageEvents == {"arb_too_late", "arb_capped", "arb_simulated",
                    "arb_unsigned", "arb_failed", "arb_executed"}

\* Outcomes of a scan: run_once was called.
ScanEvents == {"scan_not_open", "scan_nodata"} \cup EvaluatedEvents

\* C11 as stated: with min_time_remaining_minutes above zero, an iteration
\* that starts with fewer than that many minutes before the close hands no
\* order to the execution step and opens no position.
C11_MinTimeGuard ==
    [][ ( /\ min_time_remaining_minutes > 0
          /\ market_end_timestamp - now < 60 * min_time_remaining_minutes ) =>
          /\ last'.ev \notin OrderEvents
          /\ accepted' = accepted ]_vars

\* C12: with a cap configured the trades of the current market never
\* exceed it, and a call of execute_arbitrage made once the cap is reached
\* is rejected: it returns (the session runs on), posts no batch, writes
\* no error and changes no counter but opportunities_found.
C12_TradeCap ==
    [][ max_trades_per_market > 0 =>
          /\ counters'.current_market_trades <= max_trades_per_market
          /\ ( /\ counters.current_market_trades >= max_trades_per_market
               /\ last'.ev \in ArbitrageEvents ) =>
                /\ last'.ev \in {"arb_capped", "arb_too_late"}
                /\ counters' = [counters EXCEPT !.opportunities_found = @ + 1]
                /\ alive'
                /\ error_log' = error_log
                /\ now' = now ]_vars

\* C12 witness: the cap of one trade was reached and the next call was
\* rejected by it.
C12_Witness ==
    /\ max_trades_per_market = 1
    /\ last.ev = "arb_capped"
    /\ counters.current_market_trades = 1
    /\ counters.opportunities_found = 2

\* C13 as stated: from the end of the strategy window (market start + 120
\* seconds) until the close, no iteration hands an order to the execution
\* step or opens a position.
C13_NoEntryAfterStrategyEnd ==
    [][ ( /\ now >= strategy_end_timestamp
          /\ now < market_end_timestamp ) =>
          /\ last'.ev \notin OrderEvents
          /\ accepted' = accepted
          /\ is_performed' = is_performed ]_vars

\* C15: with the market open and no position held, an iteration that
\* starts before the strategy start time awaits (no scan, no order), and
\* one that starts after it scans.
C15_AwaitThenScan ==
    [][ ( /\ alive
          /\ now < market_end_timestamp
          /\ ~is_performed
          /\ ~is_finished ) =>
          /\ now < strategy_start_timestamp =>
                /\ last'.ev = "await"
                /\ UNCHANGED <<order, accepted, error_log, is_performed>>
          /\ now > strategy_start_timestamp => last'.ev \in ScanEvents ]_vars

\* C15 witness: the session awaited the entry window of the second market
\* and then opened a position in it.
C15_Witness ==
    /\ is_performed_informed
    /\ market_slug = WindowSeconds
    /\ last.ev = "scan_opened"
    /\ now > strategy_start_timestamp

\* C14 as stated: get_strategy_remaining_to_start returns CLOSED exactly
\* when now >= strategy_start_timestamp, and a countdown before.
C14_ClosedOnceStarted ==
    last.ev = "clock" =>
        (returned.to_start = CLOSED <=> now >= strategy_start_timestamp)

\* C16: get_time_remaining returns CLOSED exactly when now >= market start
\* + 300 s, and of two successive calls on an open market the later one
\* reports strictly less.
C16_TimeRemaining ==
    [][ last'.ev = "clock" =>
          /\ returned'.time_remaining = CLOSED <=>
                now' >= market_slug + WindowSeconds
          /\ (last.ev = "clock" /\ returned'.time_remaining # CLOSED) =>
                /\ returned.time_remaining # CLOSED
                /\ Seconds(returned'.time_remaining) <
                       Seconds(returned.time_remaining)
                /\ Seconds(returned'.time_remaining) =
                       market_slug + WindowSeconds - now' ]_vars

\* C16 witness: a call made in the closing second itself reports CLOSED.
C16_Witness ==
    /\ last.ev = "clock"
    /\ now = market_slug + WindowSeconds
    /\ returned.time_remaining = CLOSED

\* C17: for a unit price in whole cents in (0, 1) whose raw cost is below
\* $1, the size s the sizer produces has s * p >= $1 and s * p an exact
\* number of cents (size in hundredths of a share, price in cents: the
\* product is in hundredths of a cent).
C17_SizedNotional ==
    ( /\ returned.fn = "sizer"
      /\ returned.done
      /\ returned.best % 10 = 0
      /\ returned.price * returned.order_size < 100 ) =>
        /\ returned.size > 0
        /\ returned.size * returned.price >= 10000
        /\ (returned.size * returned.price) % 100 = 0

\* C17 witness: one share at 0.33 costs less than $1 and is resized to 4
\* shares, $1.32.
C17_Witness ==
    /\ returned.fn = "sizer"
    /\ returned.done
    /\ returned.best = 330
    /\ returned.order_size = 1
    /\ returned.size = 400

\* C18 as stated: the sizer returns a size for every unit price in (0, 1),
\* and 334 shares for a price of 0.003.
C18_SizerAlwaysReturns ==
    (returned.fn = "sizer" /\ returned.done) =>
        /\ returned.size # ZeroDivision
        /\ returned.best = 3 => returned.size = 100 * 334

\* A snapshot all of whose six values are present.
ValidSnapshot(q) ==
    /\ q.price_up # None
    /\ q.price_down # None
    /\ q.best_up # None
    /\ q.best_down # None

C20_IlliquidIsNull ==
    ( /\ returned.fn = "check_arbitrage"
      /\ returned.done
      /\ returned.quote.size_up # None
      /\ \/ returned.quote.size_up - SafetyMargin < OrderSize
         \/ returned.quote.size_down - SafetyMargin < OrderSize ) =>
        returned.result.kind = "null"

SubmitCalls == {"execute_market_buy", "create_order", "post_orders"}

\* C22: in dry-run mode no step of the session, a scan of run_once or a
\* call of execute_arbitrage, across polls and rotations, makes a call that
\* signs or submits an order.
C22_DryRunSubmitsNothing ==
    [][ dry_run =>
          \A i \in DOMAIN last'.calls : last'.calls[i].call \notin SubmitCalls
      ]_vars

\* C22 witness: a dry-run session that has opened a simulated position on
\* the directional path in its second window, after a rotation, and has
\* just simulated an arbitrage trade.
C22_Witness ==
    /\ dry_run
    /\ last.ev = "arb_simulated"
    /\ market_slug = WindowSeconds
    /\ is_performed
    /\ Len(accepted) >= 1
    /\ counters.current_market_trades >= 1

\* C27 as stated: every execute_market_buy call of run_once is made at a
\* time strictly before the close of the window the bot tracks, whatever
\* retries and back-offs the quote fetch of that scan went through.
C27_SubmittedBeforeClose ==
    [][ \A i \in DOMAIN last'.calls :
            last'.calls[i].call = "execute_market_buy" =>
                last'.calls[i].at < market_end_timestamp
      ]_vars

\* C23: one call of get_current_prices fetches at most 3 times; every
\* failed fetch but the third is followed by a 1-second sleep and nothing
\* else is; the first fetch that answers is the last step and its quote is
\* the result; the all-None result comes exactly when three fetches in a
\* row have failed.  The call takes one second per sleep.
C23_RetriesThenGivesUp ==
    (returned.fn = "get_current_prices" /\ returned.done) =>
        LET steps == returned.steps
            answers == returned.answers
            fetches == Count(steps, "fetch")
            failed == {n \in 1 .. MaxRetries : \A m \in 1 .. n : ~answers[m]}
            failures == Cardinality(failed)
        IN  /\ fetches >= 1
            /\ fetches <= 3
            /\ steps[Len(steps)] = "fetch"
            /\ \A i \in 1 .. Len(steps) - 1 :
                   steps[i] = "fetch" <=> steps[i + 1] = "sleep"
            /\ fetches = IF failures < 3 THEN failures + 1 ELSE 3
            /\ Count(steps, "sleep") = IF failures < 3 THEN failures ELSE 2
            /\ now = (CHOOSE t \in InitTimes : TRUE) + Count(steps, "sleep") * 1
            /\ failures < 3 => returned.result = returned.quote
            /\ returned.result = AllNone <=> failures = 3

\* C23 witness: the first two attempts fail, the third answers; the call
\* has slept twice and returns the third attempt's quote.
C23_Witness ==
    /\ returned.fn = "get_current_prices"
    /\ returned.done
    /\ returned.answers = <<FALSE, FALSE, TRUE>>
    /\ returned.steps = <<"fetch", "sleep", "fetch", "sleep", "fetch">>
    /\ returned.result = returned.quote
    /\ returned.result # AllNone

\* Outcomes of a closed-branch iteration whose discovery (in monitor) or
\* whose re-construction (discovery again, then resolution) raised.
RotationFailures == {"discovery_failed", "rebuild_failed"}

C25_SignAheadSubmitTogether ==
    [][ last'.ev \in {"arb_unsigned", "arb_failed", "arb_executed"} =>
          LET calls == last'.calls
              posts == {i \in DOMAIN calls : calls[i].call = "post_orders"}
          IN  /\ Len(calls) >= 2
              /\ calls[1].call = "create_order" /\ calls[1].legs = <<"UP">>
              /\ calls[2].call = "create_order" /\ calls[2].legs = <<"DOWN">>
              /\ \A i \in DOMAIN calls :
                     calls[i].call = "create_order" => i <= 2
              /\ \A i \in posts : i = 3 /\ calls[i].legs = <<"UP", "DOWN">>
              /\ last'.ev = "arb_unsigned" <=> posts = {}
              /\ \A i \in 1 .. 3 : i \in DOMAIN calls => calls[i].at = now
      ]_vars

\* C25 witness: a real arbitrage trade went through: UP signed, DOWN
\* signed, both posted in one batch, then the positions read.
C25_Witness ==
    /\ ~dry_run
    /\ last.ev = "arb_executed"
    /\ Len(last.calls) = 6
    /\ last.calls[3].call = "post_orders"
    /\ last.calls[3].legs = <<"UP", "DOWN">>
    /\ last.calls[4].call = "get_positions"
    /\ counters.trades_executed = 1

\* C26 as stated: the first closed-branch iteration after a window closes
\* appends one row to the ledger.
C26_Original ==
    [][ (last'.ev \in ClosedEvents /\ last'.passes = 1) =>
            Len(ledger') = Len(ledger) + 1
      ]_vars

\* C26 amended: the first closed-branch iteration after a window closes
\* appends one row, for that window and with the record's direction, when
\* the bot holds an order record for the window, and appends nothing when
\* it holds none.
C26_RowWhenOrderHeld ==
    [][ (last'.ev \in ClosedEvents /\ last'.passes = 1) =>
            IF order = NoOrder
            THEN ledger' = ledger
            ELSE /\ Len(ledger') = Len(ledger) + 1
                 /\ SubSeq(ledger', 1, Len(ledger)) = ledger
                 /\ ledger'[Len(ledger')].window = market_slug
                 /\ ledger'[Len(ledger')].direction = order.direction
      ]_vars

\* C26 witness: the first window closed with an order record held, and
\* the closed-branch iteration that followed wrote the one row there is.
C26_Witness ==
    /\ last.ev \in ClosedEvents
    /\ last.passes = 1
    /\ Len(ledger) = 1
    /\ ledger[1].window = 0
    /\ order = NoOrder

\* C30: no two rows of the ledger are for the same window, and a
\* closed-branch iteration that follows another one appends nothing.
C30_OneRowPerWindow ==
    /\ [](\A i, j \in DOMAIN ledger :
             ledger[i].window = ledger[j].window => i = j)
    /\ [][ (last'.ev \in ClosedEvents /\ last'.passes >= 2) =>
              ledger' = ledger
          ]_vars

\* C30 witness: the loop has passed through the closed branch twice in a
\* row on a window that has its row.
C30_Witness ==
    /\ last.ev \in ClosedEvents
    /\ last.passes = 2
    /\ Len(ledger) = 1
    /\ ledger[1].window = 0

\* C28 as stated: a stop-loss poll stops the position only when the
\* held side's last-trade price is at least the margin below the
\* last-trade price that triggered the entry; with quotes that have not
\* changed since the entry it does not fire.
C28_StopLossFromTrigger ==
    [][ last'.ev = "stoploss_fired" =>
          (IF order.direction = "UP" THEN probe.pu ELSE probe.pd)
              - last'.cur >= StopLoss
      ]_vars

\* C29: for every whole-cent unit price from 1 to 99 cents whose raw
\* cost is below one dollar, the scan finds a candidate among its 200, an
\* exact-cent one, and the fallback is not taken.
C29_ScanAlwaysFinds ==
    ( /\ returned.fn = "sizer"
      /\ returned.done
      /\ returned.best % 10 = 0
      /\ returned.price \in 1 .. 99
      /\ returned.price * returned.order_size < 100 ) =>
        /\ returned.scan = "found"
        /\ (returned.size * returned.price) % 100 = 0
        /\ returned.size >= Ceil(10000, returned.price)
        /\ returned.size < Ceil(10000, returned.price) + 200

\* C29 witness: at 0.99 the scan starts at 1.02 shares and finds its
\* first exact-cent candidate 98 steps on, at 2 shares.
C29_Witness ==
    /\ returned.fn = "sizer"
    /\ returned.done
    /\ returned.best = 990
    /\ returned.order_size = 1
    /\ returned.scan = "found"
    /\ returned.size = 200

====
